---- MODULE Spec2Model ----
(***************************************************************************)
(* ScaleCards ingestion core: the refresh orchestrators (on-demand batch,  *)
(* on-demand single dataset, scheduled batch, watchdog-triggered), the     *)
(* change detector and snapshot store, and the watchdog probes.            *)
(*                                                                         *)
(* Time is counted in quarter hours.  A nullable timestamp is NullTime, a  *)
(* nullable snapshot reference is NullId, a nullable year is NullYear (the *)
(* code tests years by truthiness, so null and 0 are one value there).     *)
(***************************************************************************)
EXTENDS Integers, Sequences, FiniteSets, TLC

\* ------------------------------------------------------------------ bounds

\* Snapshots the runs may add to the seeded store.
MaxCreated == 2
\* Clock: at most MaxDays two-day jumps or MaxQuarters quarter-hour steps.
MaxDays == 3
MaxQuarters == 2

\* ------------------------------------------------------- program constants

TicksPerHour == 4
NullTime == -1
NullId == 0
NullYear == 0

\* The shared secret: unset or absent, the configured value, another value.
NoSecret == ""
Secret == "s3cret"
WrongSecret == "guess"

\* A two-day jump of the clock (48 hours).
TwoDays == 48 * TicksPerHour

\* ----------------------------------------------------------------- payloads

\* A payload is the ordered list of its fields as the adapter built the
\* object: <<key, value>> pairs in insertion order.  notes is the list of the
\* numbers its text mentions.
PayloadA == << <<"total", 100>>, <<"notes", <<2023>> >> >>
PayloadB == << <<"total", 200>>, <<"notes", <<2024>> >> >>
SeedPayload == << <<"total", 50>> >>

Payloads == {PayloadA, PayloadB}

\* PayloadA built by a code path that sets notes before total.
PayloadAReordered == << <<"notes", <<2023>> >>, <<"total", 100>> >>

\* JSON.stringify keeps insertion order: the serialisation is the list itself.
Stringify(payload) == payload

\* md5 of the serialisation; the digest is taken to be collision free.
NoHash == <<"null">>
SourceHash(payload) == <<"md5", Stringify(payload)>>

\* ------------------------------------------------------------------ registry

datasetFetchers ==
    {"bitcoin-price", "ethereum-price", "global-flights", "co2-emissions",
     "military-spending", "solar-activity-today"}

HasFetcher(slug) == slug \in datasetFetchers

\* The seeded datasets, in the order findMany returns them.
SeedOrder ==
    <<"ethereum-price", "global-flights", "bitcoin-price", "co2-emissions",
      "military-spending">>

HourlyOrder == <<"ethereum-price", "global-flights", "bitcoin-price">>

SeedRate(slug) ==
    IF slug \in {"co2-emissions", "military-spending"} THEN "weekly" ELSE "hourly"

Slugs == {SeedOrder[i] : i \in 1..Len(SeedOrder)}

\* Cards and the dataset each belongs to.
CardDataset ==
    [c1 |-> "ethereum-price", c2 |-> "global-flights", c3 |-> "co2-emissions",
     c4 |-> "military-spending", c5 |-> "bitcoin-price"]
CardIds == DOMAIN CardDataset

\* world describes the environment and never changes: what each adapter may
\* answer (feeds), whether a store call may fail (faults), and how far the
\* clock runs (days, quarters).
\* fan is one runAllProbes call in progress, probe one runProbe call,
\* adapter one fetchDataset call.
VARIABLES now, datasets, snapshots, cards, run, world, fan, probe, adapter

vars == <<now, datasets, snapshots, cards, run, world, fan, probe, adapter>>

\* -------------------------------------------------------------------- store

\* scripts/seed.ts: one dataset row per seeded slug stamped with the seeding
\* time, one seed snapshot each (written without a sourceHash), the pointer
\* set to it, and the cards created on it.
SeedDataset(order, i) ==
    [slug |-> order[i], refreshRate |-> SeedRate(order[i]),
     lastRefreshedAt |-> 0, lastWatchdogAt |-> NullTime,
     latestSourceYear |-> NullYear, latestSnapshotId |-> i]

SeedSnapshot(order, i) ==
    [datasetId |-> order[i], payload |-> SeedPayload, sourceHash |-> NoHash,
     collectedAt |-> 0]

Index(order, slug) == CHOOSE i \in 1..Len(order) : order[i] = slug

SeedCards(order) ==
    LET stored == {c \in CardIds : \E i \in 1..Len(order) : order[i] = CardDataset[c]}
    IN  [c \in stored |->
            [datasetId |-> CardDataset[c], snapshotId |-> Index(order, CardDataset[c])]]

\* prisma.dataset.findMany({ where: { refreshRate: { in: rates } } })
FindMany(rates) ==
    LET stored == SelectSeq(SeedOrder, LAMBDA s : s \in DOMAIN datasets)
        rows == [i \in 1..Len(stored) |-> datasets[stored[i]]]
    IN  SelectSeq(rows, LAMBDA d : d.refreshRate \in rates)

\* --------------------------------------------------------------------- runs

\* Two run slots: a run, and one that may overlap it.
Runs == {1, 2}

IdleRun ==
    [kind |-> "idle", pc |-> "idle", force |-> FALSE, loaded |-> <<>>,
     idx |-> 0, payload |-> <<>>, snap |-> NullId, results |-> <<>>,
     probes |-> <<>>, changed |-> <<>>, secret |-> NoSecret]

Free(e) == run[e].pc = "idle"

\* The dataset row (as read when the run started) the run is working on.
Current(r) ==
    IF r.kind = "watchdog"
    THEN LET slug == r.changed[r.idx].slug
             i == CHOOSE j \in 1..Len(r.loaded) : r.loaded[j].slug = slug
         IN  r.loaded[i]
    ELSE r.loaded[r.idx]

\* What the run iterates over.
WorkLen(r) ==
    IF r.kind \in {"watchdog", "probeAll", "probeOne"} THEN Len(r.changed)
    ELSE Len(r.loaded)

\* results.push(...) of the four paths, then on to the next dataset.
Entry(r, slug, status, msg) ==
    CASE r.kind = "batch" -> [slug |-> slug, status |-> status, error |-> msg]
      [] r.kind = "single" -> [slug |-> slug, status |-> status, error |-> msg]
      [] r.kind = "scheduled" ->
            [slug |-> slug,
             status |-> IF status = "error" THEN "error: " \o msg ELSE status,
             error |-> ""]
      [] OTHER ->
            [slug |-> slug,
             status |-> IF status = "error" THEN "error: " \o msg ELSE status,
             error |-> "", newYear |-> r.changed[r.idx].detectedYear]

Push(r, slug, status, msg) ==
    [r EXCEPT !.results = Append(@, Entry(r, slug, status, msg)),
              !.idx = @ + 1, !.pc = "loop"]

\* A catch that records the error and leaves the loop.
CatchErrorBreak(r, msg) ==
    [r EXCEPT !.results = Append(@, Entry(r, Current(r).slug, "error", msg)),
              !.idx = WorkLen(r) + 1, !.pc = "loop"]

\* catch (error) { results.push({ status: "error", ... }) }
CatchError(r, msg) == Push(r, Current(r).slug, "error", msg)

\* No probe call is in progress.
NoFan == [phase |-> "idle", knownYears |-> <<>>, resps |-> <<>>, settled |-> <<>>,
          results |-> <<>>]
NoProbe == [phase |-> "idle", slug |-> "", currentYear |-> NullYear, resp |-> <<>>,
            result |-> <<>>]
\* No fetchDataset call is in progress.
NoCall == [pc |-> "idle", slug |-> "", sources |-> <<>>, requested |-> <<>>,
           result |-> [ok |-> FALSE, payload |-> <<>>]]

\* The store as scripts/seed.ts leaves it for the datasets of `order`.
Seeded(order) ==
    /\ now = 0
    /\ datasets = [s \in {order[i] : i \in 1..Len(order)} |->
                      SeedDataset(order, Index(order, s))]
    /\ snapshots = [i \in 1..Len(order) |-> SeedSnapshot(order, i)]
    /\ cards = SeedCards(order)
    /\ run = [e \in Runs |-> IdleRun]
    /\ fan = NoFan
    /\ probe = NoProbe
    /\ adapter = NoCall

\* What fetchDataset(slug) does: a normalized payload, or it throws.
AdapterOutcomes ==
    {[ok |-> TRUE, payload |-> p] : p \in Payloads}
        \cup {[ok |-> FALSE, payload |-> <<>>]}

\* -------------------------------------------------------------- rate gating

\* The on-demand thresholds with the weekly one of the scheduled function.
RouteMinTicksCronWeekly(rate) ==
    CASE rate = "hourly" -> TicksPerHour \div 2
      [] rate = "daily" -> 12 * TicksPerHour
      [] rate = "weekly" -> 120 * TicksPerHour
      [] OTHER -> 0

\* The on-demand thresholds without the hourly one.
RouteMinTicksNoHourly(rate) ==
    CASE rate = "daily" -> 12 * TicksPerHour
      [] rate = "weekly" -> 72 * TicksPerHour
      [] OTHER -> 0

\* app/api/refresh/route.ts: hourly 0.5 h, daily 12 h, weekly 72 h.
RouteMinTicks(rate) ==
    CASE rate = "hourly" -> TicksPerHour \div 2
      [] rate = "daily" -> 12 * TicksPerHour
      [] rate = "weekly" -> 72 * TicksPerHour
      [] OTHER -> 0

\* inngest/functions/refreshDatasets.ts: daily 20 h, weekly 120 h, and no
\* test at all for hourly.
CronMinTicks(rate) ==
    CASE rate = "daily" -> 20 * TicksPerHour
      [] rate = "weekly" -> 120 * TicksPerHour
      [] OTHER -> 0

\* A gate that does not look at the force flag.
RouteGatedWhateverForce(ds, force, t) ==
    /\ ds.lastRefreshedAt # NullTime
    /\ t - ds.lastRefreshedAt < RouteMinTicks(ds.refreshRate)

\* if (!force && dataset.lastRefreshedAt) { hoursSince < threshold => skip }
RouteGated(ds, force, t) ==
    /\ ~force
    /\ ds.lastRefreshedAt # NullTime
    /\ t - ds.lastRefreshedAt < RouteMinTicks(ds.refreshRate)

\* if (dataset.lastRefreshedAt) { hoursSinceRefresh < threshold => skip }
CronGated(ds, t) ==
    /\ ds.lastRefreshedAt # NullTime
    /\ t - ds.lastRefreshedAt < CronMinTicks(ds.refreshRate)

Gated(r, ds, t) ==
    CASE r.kind = "batch" -> RouteGated(ds, r.force, t)
      [] r.kind = "scheduled" -> CronGated(ds, t)
      [] OTHER -> FALSE

\* ------------------------------------------------------------ change detector

\* extractDataYear: the highest 20[1-9]d year the notes mention, else null.
NotesOf(payload) ==
    LET hits == {i \in 1..Len(payload) : payload[i][1] = "notes"}
    IN  IF hits = {} THEN <<>> ELSE payload[CHOOSE i \in hits : TRUE][2]

ExtractDataYear(payload) ==
    LET notes == NotesOf(payload)
        years == {notes[i] : i \in 1..Len(notes)} \cap (2010..2099)
    IN  IF years = {} THEN NullYear
        ELSE CHOOSE y \in years : \A z \in years : z <= y

\* A change detector that compares the stored hash with the unhashed text.
SameAsLatestUnhashed(ds, payload) ==
    /\ ds.latestSnapshotId # NullId
    /\ snapshots[ds.latestSnapshotId].sourceHash = <<"text", Stringify(payload)>>

\* latest?.sourceHash === sourceHash, for the snapshot the stale row points at.
SameAsLatest(ds, payload) ==
    /\ ds.latestSnapshotId # NullId
    /\ snapshots[ds.latestSnapshotId].sourceHash = SourceHash(payload)

\* What a run does when the fetched payload hashes like the latest snapshot.
\*   route.ts 74-85: await dataset.update({ lastRefreshedAt }), then "unchanged"
\*   refreshDatasets.ts 94-100 and refresh/[slug]/route.ts 54-61: "unchanged",
\*     nothing written
\*   watchForNewPublications.ts 94-112: latestSourceYear if the probe has a year
OnUnchanged(r, payload) ==
    CASE r.kind = "batch" -> [r EXCEPT !.payload = payload, !.pc = "bump"]
      [] r.kind = "watchdog" /\ r.changed[r.idx].detectedYear # NullYear ->
            [r EXCEPT !.payload = payload, !.pc = "year"]
      [] r.kind = "watchdog" ->
            Push([r EXCEPT !.payload = payload], Current(r).slug,
                 "year_updated_data_unchanged", "")
      [] OTHER -> Push([r EXCEPT !.payload = payload], Current(r).slug, "unchanged", "")

\* A pointer update that names the id after the one created.
PointerDataNextId(r, ds, t) ==
    [ds EXCEPT !.latestSnapshotId = r.snap + 1, !.lastRefreshedAt = t]

\* A pointer update that writes the year on the scheduled path only.
PointerDataWithoutYear(r, ds, t) ==
    LET moved == [ds EXCEPT !.latestSnapshotId = r.snap, !.lastRefreshedAt = t]
    IN  IF r.kind = "scheduled" /\ ExtractDataYear(r.payload) # NullYear
        THEN [moved EXCEPT !.latestSourceYear = ExtractDataYear(r.payload)]
        ELSE moved

\* The data of the dataset.update that moves the pointer.
\*   route.ts 99-105, refresh/[slug]/route.ts 75-81: pointer and lastRefreshedAt
\*   refreshDatasets.ts 114-122: also latestSourceYear when the notes give one
\*   watchForNewPublications.ts 126-133: also latestSourceYear = detectedYear
PointerData(r, ds, t) ==
    LET moved == [ds EXCEPT !.latestSnapshotId = r.snap, !.lastRefreshedAt = t]
    IN  CASE r.kind = "scheduled" ->
                IF ExtractDataYear(r.payload) # NullYear
                THEN [moved EXCEPT !.latestSourceYear = ExtractDataYear(r.payload)]
                ELSE moved
          [] r.kind = "watchdog" ->
                [moved EXCEPT !.latestSourceYear = r.changed[r.idx].detectedYear]
          [] OTHER -> moved

\* A card update whose filter is the new snapshot id instead of the dataset.
CardsOnSnapshotId(slug, snap) ==
    [c \in DOMAIN cards |->
        IF cards[c].snapshotId = snap THEN [cards[c] EXCEPT !.snapshotId = snap]
        ELSE cards[c]]

\* prisma.card.updateMany({ where: { datasetId }, data: { snapshotId } })
CardsOn(slug, snap) ==
    [c \in DOMAIN cards |->
        IF cards[c].datasetId = slug THEN [cards[c] EXCEPT !.snapshotId = snap]
        ELSE cards[c]]

\* ------------------------------------------------------------------- probes

\* An upstream HTTP exchange: the request fails on the network ("neterr"),
\* answers with a non-success status ("http"), answers 200 with a body that
\* is no JSON ("badjson"), or answers 200 with JSON ("json").
NetErr == [kind |-> "neterr", body |-> <<>>]
HttpErr == [kind |-> "http", body |-> <<>>]
BadJson == [kind |-> "badjson", body |-> <<>>]
Json(body) == [kind |-> "json", body |-> body]
\* No exchange at all (a slug without a probe).
NoResp == [kind |-> "none", body |-> <<>>]

\* A commit of the GitHub commits API: the committer date and the numbers the
\* message mentions, in order; wellFormed is FALSE for an entry without the
\* commit.committer.date / commit.message fields.
Commit(year, month, message) ==
    [wellFormed |-> TRUE, year |-> year, month |-> month, message |-> message]
BrokenCommit == [wellFormed |-> FALSE, year |-> 0, month |-> 0, message |-> <<>>]

\* A WatchdogResult; error = "" stands for the absent field.
Result(slug, changed, previousYear, detectedYear, method, t, error) ==
    [slug |-> slug, changed |-> changed, previousYear |-> previousYear,
     detectedYear |-> detectedYear, method |-> method, checkedAt |-> t,
     error |-> error]

\* The message thrown inside a probe's try block for a response it cannot
\* read, "" when nothing is thrown.
GitHubThrows(resp) ==
    CASE resp.kind = "neterr" -> "fetch failed"
      [] resp.kind = "http" -> "GitHub API 403"
      [] resp.kind = "badjson" -> "Unexpected token"
      [] Len(resp.body) = 0 -> "No commits found"
      [] ~resp.body[1].wellFormed -> "Cannot read properties of undefined"
      [] OTHER -> ""

\* commitMsg.match(/20\d{2}/): the first year 2000..2099 in the message.
MentionedYear(message) ==
    LET hits == {i \in 1..Len(message) : message[i] \in 2000..2099}
    IN  IF hits = {} THEN NullYear
        ELSE message[CHOOSE i \in hits : \A j \in hits : i <= j]

\* A CO2 probe whose month rule takes a commit of any year.
ProbeCO2EmissionsAnyCommitYear(currentYear, resp, t) ==
    LET slug == "co2-emissions" IN
    IF GitHubThrows(resp) # ""
    THEN Result(slug, FALSE, currentYear, NullYear, "GitHub API", t, GitHubThrows(resp))
    ELSE LET c == resp.body[1]
             mentionedYear == MentionedYear(c.message)
         IN  IF mentionedYear # NullYear /\ currentYear # NullYear
                 /\ mentionedYear > currentYear
             THEN Result(slug, TRUE, currentYear, mentionedYear, "GitHub commit", t, "")
             ELSE IF currentYear # NullYear /\ c.month >= 10
             THEN Result(slug, c.year > currentYear \/ c.month >= 11, currentYear,
                         c.year, "GitHub commit", t, "")
             ELSE Result(slug, FALSE, currentYear, currentYear, "GitHub commit", t, "")

\* A CO2 probe that tries the month rule before the mentioned year.
ProbeCO2EmissionsWindowFirst(currentYear, resp, t) ==
    LET slug == "co2-emissions" IN
    IF GitHubThrows(resp) # ""
    THEN Result(slug, FALSE, currentYear, NullYear, "GitHub API", t, GitHubThrows(resp))
    ELSE LET c == resp.body[1]
             mentionedYear == MentionedYear(c.message)
         IN  IF currentYear # NullYear /\ c.year >= currentYear /\ c.month >= 10
             THEN Result(slug, c.year > currentYear \/ c.month >= 11, currentYear,
                         c.year, "GitHub commit", t, "")
             ELSE IF mentionedYear # NullYear /\ currentYear # NullYear
                     /\ mentionedYear > currentYear
             THEN Result(slug, TRUE, currentYear, mentionedYear, "GitHub commit", t, "")
             ELSE Result(slug, FALSE, currentYear, currentYear, "GitHub commit", t, "")

\* probeCO2Emissions
ProbeCO2Emissions(currentYear, resp, t) ==
    LET slug == "co2-emissions" IN
    IF GitHubThrows(resp) # ""
    THEN Result(slug, FALSE, currentYear, NullYear, "GitHub API", t, GitHubThrows(resp))
    ELSE LET c == resp.body[1]
             mentionedYear == MentionedYear(c.message)
         IN  IF mentionedYear # NullYear /\ currentYear # NullYear
                 /\ mentionedYear > currentYear
             THEN Result(slug, TRUE, currentYear, mentionedYear, "GitHub commit", t, "")
             ELSE IF currentYear # NullYear /\ c.year >= currentYear /\ c.month >= 10
             THEN Result(slug, c.year > currentYear \/ c.month >= 11, currentYear,
                         c.year, "GitHub commit", t, "")
             ELSE Result(slug, FALSE, currentYear, currentYear, "GitHub commit", t, "")

\* probeOWIDEnergyData
ProbeOWIDEnergyData(slug, currentYear, resp, t) ==
    IF GitHubThrows(resp) # ""
    THEN Result(slug, FALSE, currentYear, NullYear, "GitHub API", t, GitHubThrows(resp))
    ELSE LET mentionedYear == MentionedYear(resp.body[1].message)
         IN  IF mentionedYear # NullYear /\ currentYear # NullYear
                 /\ mentionedYear > currentYear
             THEN Result(slug, TRUE, currentYear, mentionedYear, "GitHub commit", t, "")
             ELSE IF currentYear = NullYear /\ mentionedYear # NullYear
             THEN Result(slug, TRUE, currentYear, mentionedYear, "GitHub commit", t, "")
             ELSE Result(slug, FALSE, currentYear, currentYear, "GitHub commit", t, "")

\* A World Bank body is <<meta, entries>> (or shorter); an entry is
\* [date |-> year, value |-> number or NullValue].
NullValue == -1

Entry2(year, value) == [date |-> year, value |-> value]

\* The latest year among all the entries, with a value or not.
LatestYearAnyValue(entries) ==
    LET years == {entries[i].date : i \in 1..Len(entries)}
    IN  IF years = {} THEN 0 ELSE CHOOSE y \in years : \A z \in years : z <= y

\* The latest year among the entries with a value (0 when there is none).
LatestYear(entries) ==
    LET years == {entries[i].date : i \in {j \in 1..Len(entries) : entries[j].value # NullValue}}
    IN  IF years = {} THEN 0 ELSE CHOOSE y \in years : \A z \in years : z <= y

WorldBankThrows(resp) ==
    CASE resp.kind = "neterr" -> "fetch failed"
      [] resp.kind = "http" -> "World Bank API 502"
      [] resp.kind = "badjson" -> "Unexpected token"
      [] OTHER -> ""

\* probeWorldBankIndicator
ProbeWorldBankIndicator(slug, currentYear, resp, t) ==
    IF WorldBankThrows(resp) # ""
    THEN Result(slug, FALSE, currentYear, NullYear, "World Bank", t, WorldBankThrows(resp))
    ELSE IF Len(resp.body) < 2 \/ Len(resp.body[2]) = 0
    THEN Result(slug, FALSE, currentYear, NullYear, "World Bank: no data in range", t, "")
    ELSE LET latestYear == LatestYear(resp.body[2])
         IN  Result(slug, currentYear # NullYear /\ latestYear > currentYear, currentYear,
                    latestYear, "World Bank: latest data year", t, "")

WIDThrows(resp) ==
    CASE resp.kind = "neterr" -> "fetch failed"
      [] resp.kind = "http" -> "WID API 500"
      [] resp.kind = "badjson" -> "Unexpected token"
      [] OTHER -> ""

\* probeWealthInequality: the body is the list of the year keys of the series.
ProbeWealthInequality(currentYear, resp, t) ==
    LET slug == "wealth-inequality" IN
    IF WIDThrows(resp) # ""
    THEN Result(slug, FALSE, currentYear, NullYear, "WID API", t, WIDThrows(resp))
    ELSE LET years == {resp.body[i] : i \in 1..Len(resp.body)}
             latestYear == IF years = {} THEN 0
                           ELSE CHOOSE y \in years : \A z \in years : z <= y
         IN  Result(slug, currentYear # NullYear /\ latestYear > currentYear, currentYear,
                    latestYear, "WID API shweal", t, "")

\* The probes runAllProbes launches, in its order.
ProbeSlugs ==
    <<"co2-emissions", "renewable-energy", "ev-adoption", "military-spending",
      "internet-access", "smartphone-access", "wealth-inequality">>

\* runProbe: the probe of a slug, or "no probe available".
RunProbe(slug, currentYear, resp, t) ==
    CASE slug = "co2-emissions" -> ProbeCO2Emissions(currentYear, resp, t)
      [] slug \in {"renewable-energy", "ev-adoption"} ->
            ProbeOWIDEnergyData(slug, currentYear, resp, t)
      [] slug \in {"military-spending", "internet-access", "smartphone-access"} ->
            ProbeWorldBankIndicator(slug, currentYear, resp, t)
      [] slug = "wealth-inequality" -> ProbeWealthInequality(currentYear, resp, t)
      [] OTHER -> Result(slug, FALSE, currentYear, NullYear, "no probe available", t, "")

\* A rejection reason without a message.
NoMessage == "undefined"

\* knownYears[slug] ?? null
KnownYear(knownYears, slug) ==
    IF slug \in DOMAIN knownYears THEN knownYears[slug] ELSE NullYear

\* What a probe's try block throws for a response, "" when it completes.
ProbeThrows(slug, resp) ==
    CASE slug \in {"co2-emissions", "renewable-energy", "ev-adoption"} -> GitHubThrows(resp)
      [] slug \in {"military-spending", "internet-access", "smartphone-access"} ->
            WorldBankThrows(resp)
      [] slug = "wealth-inequality" -> WIDThrows(resp)
      [] OTHER -> ""

\* Probes that let what they throw escape: the promise is rejected.
SettledUncaught(knownYears, i, resp, t) ==
    IF ProbeThrows(ProbeSlugs[i], resp) # ""
    THEN [status |-> "rejected", value |-> <<>>,
          reason |-> ProbeThrows(ProbeSlugs[i], resp)]
    ELSE [status |-> "fulfilled",
          value |-> RunProbe(ProbeSlugs[i], KnownYear(knownYears, ProbeSlugs[i]), resp, t),
          reason |-> NoMessage]

\* One entry of Promise.allSettled: every probe catches what it throws, so
\* its promise is fulfilled with the result it returns.
Settled(knownYears, i, resp, t) ==
    [status |-> "fulfilled",
     value |-> RunProbe(ProbeSlugs[i], KnownYear(knownYears, ProbeSlugs[i]), resp, t),
     reason |-> NoMessage]

\* results.map(r => r.status === "fulfilled" ? r.value : { slug: "unknown", ... })
Collect(settled, t) ==
    IF settled.status = "fulfilled" THEN settled.value
    ELSE Result("unknown", FALSE, NullYear, NullYear, "probe failed", t,
                IF settled.reason = NoMessage THEN "unknown" ELSE settled.reason)

\* runAllProbes, given the response each probe's request meets.
RunAllProbes(knownYears, resps, t) ==
    [i \in 1..Len(ProbeSlugs) |-> Collect(Settled(knownYears, i, resps[i], t), t)]

\* -------------------------------------------------------------- environment

\* The environments explored: one weekly dataset over the days, one hourly
\* dataset over the quarter hours, three hourly datasets at one instant, and
\* the weekly dataset with an adapter that answers one payload every time,
\* with and without store failures.
World(feeds, faults, days, quarters, resps) ==
    [feeds |-> feeds, faults |-> faults, days |-> days, quarters |-> quarters,
     resps |-> resps, cronSecret |-> Secret, stalls |-> FALSE]

\* The same deployment without CRON_SECRET in its environment.
Unsecured(w) == [w EXCEPT !.cronSecret = NoSecret]

\* The same environment with upstream hosts that may accept a request and
\* never answer it (no fetch call carries a signal or a timeout).
Stalling(w) == [w EXCEPT !.stalls = TRUE]

\* Whether an awaited upstream request is answered.
Answers == IF world.stalls THEN BOOLEAN ELSE {TRUE}

\* The responses the seven probe requests of one watchdog run may meet: the
\* co2-emissions request meets any of Co2Feeds, the others a dead network.
Co2Feeds ==
    {NetErr, Json(<<Commit(2024, 11, <<2024>>)>>), Json(<<Commit(2023, 5, <<>>)>>)}

Co2Resps ==
    {[i \in 1..Len(ProbeSlugs) |-> IF i = 1 THEN r ELSE NetErr] : r \in Co2Feeds}

DeadResps == {[i \in 1..Len(ProbeSlugs) |-> NetErr]}

Init ==
    \/ /\ Seeded(<<"co2-emissions">>)
       /\ world = World(AdapterOutcomes, TRUE, MaxDays, 0, Co2Resps)
    \/ /\ Seeded(<<"bitcoin-price">>)
       /\ world = World(AdapterOutcomes, TRUE, 0, MaxQuarters, DeadResps)
    \/ /\ Seeded(HourlyOrder)
       /\ world = World(AdapterOutcomes, TRUE, 0, 0, DeadResps)
    \/ /\ Seeded(<<"co2-emissions">>)
       /\ \E p \in Payloads \cup {SeedPayload}, f \in BOOLEAN :
             world = World({[ok |-> TRUE, payload |-> p]}, f, MaxDays, 0, Co2Resps)

\* ------------------------------------------------------------------ actions

AdapterError == "upstream unavailable"
StoreError == "store unavailable"

Others == <<now, datasets, snapshots, cards, world, fan, probe, adapter>>

\* The outcomes of one store call.
StoreOutcomes == IF world.faults THEN BOOLEAN ELSE {TRUE}

\* An on-demand request: the ?secret= parameter and the bearer token of the
\* Authorization header, each possibly absent.
Requests ==
    {[query |-> q, bearer |-> b] : q \in {NoSecret, Secret, WrongSecret},
                                   b \in {NoSecret, Secret}}

\* searchParams.get("secret") || authorization?.replace("Bearer ", "")
RefreshSecret(req) == IF req.query # NoSecret THEN req.query ELSE req.bearer

\* searchParams.get("secret")
WatchdogSecret(req) == req.query

\* A check that is made only when the request presents a secret.
AuthorizedUnlessAbsent(secret) == secret = NoSecret \/ secret = world.cronSecret

\* !(process.env.CRON_SECRET && secret !== process.env.CRON_SECRET)
Authorized(secret) == world.cronSecret = NoSecret \/ secret = world.cronSecret

\* return NextResponse.json({ error: "Unauthorized" }, { status: 401 })
Unauthorized(kind, secret) ==
    [IdleRun EXCEPT !.kind = kind, !.pc = "unauthorized", !.secret = secret]

\* The 401 response is sent.
Respond401(e) ==
    /\ run[e].pc = "unauthorized"
    /\ run' = [run EXCEPT ![e] = IdleRun]
    /\ UNCHANGED Others

\* GET /api/refresh[?force=true]: the auth check, then the read of the
\* refreshable datasets (route.ts 11-35).
StartBatch(e, force, req) ==
    /\ Free(e)
    /\ run' = [run EXCEPT ![e] =
                  IF ~Authorized(RefreshSecret(req))
                  THEN Unauthorized("batch", RefreshSecret(req))
                  ELSE [IdleRun EXCEPT !.kind = "batch", !.pc = "loop", !.force = force,
                                       !.loaded = FindMany({"hourly", "daily", "weekly"}),
                                       !.idx = 1, !.secret = RefreshSecret(req)]]
    /\ UNCHANGED Others

\* The cron-triggered refreshDatasets function: step "fetch-refreshable-datasets"
\* (refreshDatasets.ts 48-56).
StartScheduled(e) ==
    /\ Free(e)
    /\ run' = [run EXCEPT ![e] =
                  [IdleRun EXCEPT !.kind = "scheduled", !.pc = "loop",
                                  !.loaded = FindMany({"hourly", "daily", "weekly"}),
                                  !.idx = 1]]
    /\ UNCHANGED Others

\* GET /api/refresh/[slug]: the auth check, 404 without a fetcher or without
\* the row, else straight to the fetch (refresh/[slug]/route.ts 12-43).
StartSingle(e, slug, req) ==
    /\ Free(e)
    /\ run' = [run EXCEPT ![e] =
                  IF ~Authorized(RefreshSecret(req))
                  THEN Unauthorized("single", RefreshSecret(req))
                  ELSE IF HasFetcher(slug) /\ slug \in DOMAIN datasets
                  THEN [IdleRun EXCEPT !.kind = "single", !.pc = "fetch",
                                       !.loaded = <<datasets[slug]>>, !.idx = 1,
                                       !.secret = RefreshSecret(req)]
                  ELSE IdleRun]
    /\ UNCHANGED Others

\* The head of one loop iteration of a batch, up to its first await
\* (route.ts 37-63, refreshDatasets.ts 58-83).
Iterate(e) ==
    LET r == run[e] IN
    /\ r.pc = "loop"
    /\ r.kind \in {"batch", "scheduled"}
    /\ r.idx <= Len(r.loaded)
    /\ LET ds == r.loaded[r.idx] IN
       run' = [run EXCEPT ![e] =
                  IF ~HasFetcher(ds.slug) THEN Push(r, ds.slug, "no_fetcher", "")
                  ELSE IF Gated(r, ds, now) THEN Push(r, ds.slug, "skipped_too_recent", "")
                  ELSE [r EXCEPT !.pc = "fetch", !.payload = <<>>, !.snap = NullId]]
    /\ UNCHANGED Others

\* The loop is over (the results are complete): the summary is returned and
\* the run's locals are gone.
Returning(r) == r.pc = "loop" /\ r.idx > WorkLen(r)

Return(e) ==
    /\ Returning(run[e])
    /\ run' = [run EXCEPT ![e] = IdleRun]
    /\ UNCHANGED Others

\* await fetchDataset(slug), the hash, and the read of the latest snapshot
\* (snapshots are never changed, so when that read happens makes no
\* difference); any of them may throw into the catch.  A request that is
\* never answered leaves the await pending.
Fetch(e) ==
    LET r == run[e]
        ds == Current(r)
    IN
    /\ r.pc = "fetch"
    /\ \E out \in world.feeds, answered \in Answers :
          IF ~answered
          THEN run' = [run EXCEPT ![e] = [r EXCEPT !.pc = "awaiting"]]
          ELSE IF ~out.ok
          THEN run' = [run EXCEPT ![e] = CatchError(r, AdapterError)]
          ELSE \E readOk \in (IF ds.latestSnapshotId # NullId THEN StoreOutcomes ELSE {TRUE}) :
                  run' = [run EXCEPT ![e] =
                             IF ~readOk THEN CatchError(r, StoreError)
                             ELSE IF SameAsLatest(ds, out.payload)
                                  THEN OnUnchanged(r, out.payload)
                                  ELSE [r EXCEPT !.payload = out.payload, !.pc = "create"]]
    /\ UNCHANGED Others

\* await prisma.dataset.update({ data: { lastRefreshedAt: new Date() } })
\* (route.ts 75-84).
Bump(e) ==
    LET r == run[e]
        slug == Current(r).slug
    IN
    /\ r.pc = "bump"
    /\ \E ok \in StoreOutcomes :
          IF ok
          THEN /\ datasets' = [datasets EXCEPT ![slug].lastRefreshedAt = now]
               /\ run' = [run EXCEPT ![e] = Push(r, slug, "unchanged", "")]
          ELSE /\ run' = [run EXCEPT ![e] = CatchError(r, StoreError)]
               /\ UNCHANGED datasets
    /\ UNCHANGED <<now, snapshots, cards, world, fan, probe, adapter>>

\* A write that replaces the dataset's newest row instead of adding one.
SnapshotUpsert(snaps, row) ==
    IF \E i \in 1..Len(snaps) : snaps[i].datasetId = row.datasetId
    THEN LET k == CHOOSE i \in 1..Len(snaps) :
                      /\ snaps[i].datasetId = row.datasetId
                      /\ \A j \in 1..Len(snaps) : snaps[j].datasetId = row.datasetId => j <= i
         IN  [snaps EXCEPT ![k] = row]
    ELSE Append(snaps, row)

\* prisma.snapshot.create: a new row, with the next id.
SnapshotCreate(snaps, row) == Append(snaps, row)

\* await prisma.snapshot.create(...) (route.ts 89-96 and its three copies).
Create(e) ==
    LET r == run[e]
        slug == Current(r).slug
    IN
    /\ r.pc = "create"
    /\ Len(snapshots) < Cardinality(DOMAIN datasets) + MaxCreated
    /\ \E ok \in StoreOutcomes :
          IF ok
          THEN /\ snapshots' = SnapshotCreate(snapshots,
                                  [datasetId |-> slug, payload |-> r.payload,
                                   sourceHash |-> SourceHash(r.payload),
                                   collectedAt |-> now])
               /\ run' = [run EXCEPT ![e] =
                             [r EXCEPT !.snap = Len(snapshots) + 1, !.pc = "pointer"]]
          ELSE /\ run' = [run EXCEPT ![e] = CatchError(r, StoreError)]
               /\ UNCHANGED snapshots
    /\ UNCHANGED <<now, datasets, cards, world, fan, probe, adapter>>

\* await prisma.dataset.update({ data: { latestSnapshotId, ... } })
\* (route.ts 99-105 and its three copies).
Pointer(e) ==
    LET r == run[e]
        slug == Current(r).slug
    IN
    /\ r.pc = "pointer"
    /\ \E ok \in StoreOutcomes :
          IF ok
          THEN /\ datasets' = [datasets EXCEPT ![slug] = PointerData(r, @, now)]
               /\ run' = [run EXCEPT ![e] = [r EXCEPT !.pc = "cards"]]
          ELSE /\ run' = [run EXCEPT ![e] = CatchError(r, StoreError)]
               /\ UNCHANGED datasets
    /\ UNCHANGED <<now, snapshots, cards, world, fan, probe, adapter>>

\* await prisma.card.updateMany(...), then the "refreshed" entry
\* (route.ts 108-117 and its three copies).
Cards(e) ==
    LET r == run[e]
        slug == Current(r).slug
    IN
    /\ r.pc = "cards"
    /\ \E ok \in StoreOutcomes :
          IF ok
          THEN /\ cards' = CardsOn(slug, r.snap)
               /\ run' = [run EXCEPT ![e] =
                             Push(r, slug,
                                  IF r.kind = "watchdog" THEN "refreshed_with_new_year"
                                  ELSE "refreshed", "")]
          ELSE /\ run' = [run EXCEPT ![e] = CatchError(r, StoreError)]
               /\ UNCHANGED cards
    /\ UNCHANGED <<now, datasets, snapshots, world, fan, probe, adapter>>

\* The cron-triggered watchForNewPublications function: step "fetch-datasets"
\* (watchForNewPublications.ts 28-41).
StartWatchdog(e) ==
    /\ Free(e)
    /\ run' = [run EXCEPT ![e] =
                  [IdleRun EXCEPT !.kind = "watchdog", !.pc = "probe",
                                  !.loaded = FindMany({"daily", "weekly"})]]
    /\ UNCHANGED Others

\* Build a map: slug -> latestSourceYear
KnownYears(loaded) ==
    [s \in {loaded[i].slug : i \in 1..Len(loaded)} |->
        loaded[CHOOSE i \in 1..Len(loaded) : loaded[i].slug = s].latestSourceYear]

\* GET /api/watchdog: the auth check, then the read of the daily and weekly
\* datasets (watchdog/route.ts 20-26, 64-75).
StartProbeAll(e, req) ==
    /\ Free(e)
    /\ run' = [run EXCEPT ![e] =
                  IF ~Authorized(WatchdogSecret(req))
                  THEN Unauthorized("probeAll", WatchdogSecret(req))
                  ELSE [IdleRun EXCEPT !.kind = "probeAll", !.pc = "probe",
                                       !.loaded = FindMany({"daily", "weekly"}),
                                       !.secret = WatchdogSecret(req)]]
    /\ UNCHANGED Others

\* GET /api/watchdog?slug=...: the auth check, 404 without the row
\* (watchdog/route.ts 20-43).
StartProbeOne(e, slug, req) ==
    /\ Free(e)
    /\ run' = [run EXCEPT ![e] =
                  IF ~Authorized(WatchdogSecret(req))
                  THEN Unauthorized("probeOne", WatchdogSecret(req))
                  ELSE IF slug \in DOMAIN datasets
                  THEN [IdleRun EXCEPT !.kind = "probeOne", !.pc = "probe",
                                       !.loaded = <<datasets[slug]>>,
                                       !.secret = WatchdogSecret(req)]
                  ELSE IdleRun]
    /\ UNCHANGED Others

\* The response the probe of a slug meets, among those of the seven probes.
RespFor(slug, resps) ==
    IF \E i \in 1..Len(ProbeSlugs) : ProbeSlugs[i] = slug
    THEN resps[CHOOSE i \in 1..Len(ProbeSlugs) : ProbeSlugs[i] = slug]
    ELSE NoResp

\* Step "run-watchdog-probes" (watchForNewPublications.ts 44-49), and the
\* probe calls of the route (watchdog/route.ts 46, 77).
RunProbes(e) ==
    LET r == run[e] IN
    /\ r.pc = "probe"
    /\ \E resps \in world.resps, answered \in Answers :
          run' = [run EXCEPT ![e] =
                     IF ~answered
                     THEN [r EXCEPT !.pc = "awaiting"]
                     ELSE
                     [r EXCEPT !.probes =
                                  IF r.kind = "probeOne"
                                  THEN <<RunProbe(r.loaded[1].slug, r.loaded[1].latestSourceYear,
                                                  RespFor(r.loaded[1].slug, resps), now)>>
                                  ELSE RunAllProbes(KnownYears(r.loaded), resps, now),
                               !.pc = "stamp"]]
    /\ UNCHANGED Others

\* A filter that keeps every probe without an error.
ProbesWithoutError(results) == SelectSeq(results, LAMBDA p : p.error = "")

\* results.filter((r) => r.changed && !r.error)
ChangedProbes(results) == SelectSeq(results, LAMBDA p : p.changed /\ p.error = "")

\* An updateMany that also records the detected year of a changed probe.
StampAllWithYear(results, t) ==
    [s \in DOMAIN datasets |->
        IF \E i \in 1..Len(results) : results[i].slug = s
        THEN LET p == results[CHOOSE i \in 1..Len(results) : results[i].slug = s]
             IN  [datasets[s] EXCEPT
                     !.lastWatchdogAt = t,
                     !.latestSourceYear = IF p.changed THEN p.detectedYear ELSE @]
        ELSE datasets[s]]

\* An updateMany over the slugs of the probes that reported a change.
StampAllChanged(results, t) ==
    [s \in DOMAIN datasets |->
        IF \E i \in 1..Len(results) : results[i].slug = s /\ results[i].changed
        THEN [datasets[s] EXCEPT !.lastWatchdogAt = t]
        ELSE datasets[s]]

\* Step "update-watchdog-timestamps": updateMany over the slugs checked
\* (watchForNewPublications.ts 52-63, watchdog/route.ts 80-84).
StampAll(results, t) ==
    [s \in DOMAIN datasets |->
        IF \E i \in 1..Len(results) : results[i].slug = s
        THEN [datasets[s] EXCEPT !.lastWatchdogAt = t]
        ELSE datasets[s]]

Stamp(e) ==
    LET r == run[e] IN
    /\ r.pc = "stamp"
    /\ \E ok \in StoreOutcomes :
          IF ok
          THEN /\ datasets' = StampAll(r.probes, now)
               /\ run' = [run EXCEPT ![e] =
                             [r EXCEPT !.changed = IF r.kind = "watchdog"
                                                   THEN ChangedProbes(r.probes)
                                                   ELSE <<>>,
                                       !.idx = 1, !.pc = "loop"]]
          ELSE /\ run' = [run EXCEPT ![e] = IdleRun]
               /\ UNCHANGED datasets
    /\ UNCHANGED <<now, snapshots, cards, world, fan, probe, adapter>>

\* A watchdog loop head that applies the scheduled rate gate.
IterateChangedGated(e) ==
    LET r == run[e] IN
    /\ r.pc = "loop"
    /\ r.kind = "watchdog"
    /\ r.idx <= Len(r.changed)
    /\ LET slug == r.changed[r.idx].slug IN
       run' = [run EXCEPT ![e] =
                  IF (\A i \in 1..Len(r.loaded) : r.loaded[i].slug # slug) \/ ~HasFetcher(slug)
                  THEN Push(r, slug, "no_dataset_or_fetcher", "")
                  ELSE IF CronGated(Current(r), now)
                  THEN Push(r, slug, "skipped_too_recent", "")
                  ELSE [r EXCEPT !.pc = "fetch", !.payload = <<>>, !.snap = NullId]]
    /\ UNCHANGED Others

\* The head of step "refresh-new-data-<slug>", up to its first await
\* (watchForNewPublications.ts 70-83).
IterateChanged(e) ==
    LET r == run[e] IN
    /\ r.pc = "loop"
    /\ r.kind = "watchdog"
    /\ r.idx <= Len(r.changed)
    /\ LET slug == r.changed[r.idx].slug IN
       run' = [run EXCEPT ![e] =
                  IF (\A i \in 1..Len(r.loaded) : r.loaded[i].slug # slug) \/ ~HasFetcher(slug)
                  THEN Push(r, slug, "no_dataset_or_fetcher", "")
                  ELSE [r EXCEPT !.pc = "fetch", !.payload = <<>>, !.snap = NullId]]
    /\ UNCHANGED Others

\* await prisma.dataset.update({ data: { latestSourceYear: probe.detectedYear } })
\* (watchForNewPublications.ts 97-111).
YearOnly(e) ==
    LET r == run[e]
        slug == Current(r).slug
    IN
    /\ r.pc = "year"
    /\ \E ok \in StoreOutcomes :
          IF ok
          THEN /\ datasets' = [datasets EXCEPT
                                  ![slug].latestSourceYear = r.changed[r.idx].detectedYear]
               /\ run' = [run EXCEPT ![e] =
                             Push(r, slug, "year_updated_data_unchanged", "")]
          ELSE /\ run' = [run EXCEPT ![e] = CatchError(r, StoreError)]
               /\ UNCHANGED datasets
    /\ UNCHANGED <<now, snapshots, cards, world, fan, probe, adapter>>

\* The clock: a quarter of an hour, or two days.
SmallTicks(t) == t % TwoDays

Tick ==
    /\ \/ /\ SmallTicks(now) < world.quarters
          /\ now' = now + 1
       \/ /\ now \div TwoDays < world.days
          /\ now' = now + TwoDays
    /\ UNCHANGED <<datasets, snapshots, cards, run, world, fan, probe, adapter>>

Step(e) ==
    \/ \E force \in BOOLEAN, req \in Requests : StartBatch(e, force, req)
    \/ StartScheduled(e)
    \/ \E slug \in DOMAIN datasets, req \in Requests : StartSingle(e, slug, req)
    \/ Respond401(e)
    \/ StartWatchdog(e)
    \/ RunProbes(e)
    \/ Stamp(e)
    \/ IterateChanged(e)
    \/ YearOnly(e)
    \/ Iterate(e)
    \/ Return(e)
    \/ Fetch(e)
    \/ Bump(e)
    \/ Create(e)
    \/ Pointer(e)
    \/ Cards(e)

\* The on-demand watchdog endpoint.
WatchdogRoute(e) ==
    \/ \E req \in Requests : StartProbeAll(e, req)
    \/ \E slug \in DOMAIN datasets \cup {"no-such-dataset"}, req \in Requests :
          StartProbeOne(e, slug, req)

\* One run at a time (the single active orchestrator the design assumes).
Next == Step(1) \/ Tick

Spec == Init /\ [][Next]_vars

\* Overlapping runs: nothing keeps a second trigger from starting while a
\* run is under way.  The store is the seeded one MaxDays two-day jumps
\* later, and the runs overlap within one quarter hour.
Aged(order, t) ==
    /\ now = t
    /\ datasets = [s \in {order[i] : i \in 1..Len(order)} |->
                      SeedDataset(order, Index(order, s))]
    /\ snapshots = [i \in 1..Len(order) |-> SeedSnapshot(order, i)]
    /\ cards = SeedCards(order)
    /\ run = [e \in Runs |-> IdleRun]
    /\ fan = NoFan
    /\ probe = NoProbe
    /\ adapter = NoCall

\* All the triggers, the on-demand watchdog endpoint included, at one
\* instant (the seeded store MaxDays two-day jumps later), on a deployment
\* with CRON_SECRET set and on one without.
InitRoutes ==
    /\ Aged(<<"co2-emissions">>, MaxDays * TwoDays)
    /\ \/ world = World(AdapterOutcomes, TRUE, 0, 0, Co2Resps)
       \/ world = Unsecured(World(AdapterOutcomes, TRUE, 0, 0, Co2Resps))

NextRoutes == Step(1) \/ WatchdogRoute(1)

SpecRoutes == InitRoutes /\ [][NextRoutes]_vars

\* The triggers on a deployment whose upstream hosts may never answer, the
\* adapter failing or answering one payload and the store always up (so
\* that one snapshot at most is ever created).  A handler that can take a
\* step takes it (the runtime keeps executing it).
StallFeeds == {[ok |-> TRUE, payload |-> PayloadB], [ok |-> FALSE, payload |-> <<>>]}

InitStall ==
    /\ Aged(<<"co2-emissions">>, MaxDays * TwoDays)
    /\ world = Stalling(World(StallFeeds, FALSE, 0, 0, Co2Resps))

NextStall == Step(1)

SpecStall == InitStall /\ [][NextStall]_vars /\ WF_vars(NextStall)

\* The watchdog, scheduled and on demand, over a store with two probed
\* datasets: the co2-emissions probe meets any of Co2Feeds, the
\* military-spending probe a dead network or a body with 2025 data.
WatchOrder == <<"co2-emissions", "military-spending">>

WatchResps ==
    {[i \in 1..Len(ProbeSlugs) |->
         IF i = 1 THEN r ELSE IF i = 4 THEN w ELSE NetErr] :
       r \in Co2Feeds, w \in {NetErr, Json(<<"meta", <<Entry2(2025, 6)>> >>)}}

InitWatch ==
    /\ Aged(WatchOrder, MaxDays * TwoDays)
    /\ world = World(AdapterOutcomes, TRUE, 0, 0, WatchResps)

NextWatch == Step(1) \/ WatchdogRoute(1)

SpecWatch == InitWatch /\ [][NextWatch]_vars

\* The weekly dataset over the days, with an adapter that has two code
\* paths building the same field values in different insertion orders, and
\* a store that never fails.
OrderFeeds ==
    {[ok |-> TRUE, payload |-> PayloadA], [ok |-> TRUE, payload |-> PayloadAReordered]}

InitOrder ==
    /\ Seeded(<<"co2-emissions">>)
    /\ world = World(OrderFeeds, FALSE, MaxDays, 0, Co2Resps)

NextOrder == Step(1) \/ Tick

SpecOrder == InitOrder /\ [][NextOrder]_vars

InitOverlap ==
    /\ Aged(<<"co2-emissions">>, MaxDays * TwoDays)
    /\ world = World(AdapterOutcomes, TRUE, MaxDays, 0, Co2Resps)

NextOverlap == \E e \in Runs : Step(e)

SpecOverlap == InitOverlap /\ [][NextOverlap]_vars


\* ------------------------------------------------- properties of the store

ErrorStatuses == {"error"} \cup {"error: " \o m : m \in {AdapterError, StoreError}}
FetchedStatuses ==
    {"refreshed", "refreshed_with_new_year", "unchanged", "year_updated_data_unchanged"}
LastEntry(r) == r.results[Len(r.results)]

\* The adapter answers one payload, every time.
Steady == Cardinality(world.feeds) = 1 /\ \A out \in world.feeds : out.ok

\* The snapshots of a dataset stored under the fingerprint of a payload.
Holding(slug, payload) ==
    {i \in 1..Len(snapshots) :
        snapshots[i].datasetId = slug /\ snapshots[i].sourceHash = SourceHash(payload)}

Created(r) == r.pc \in {"pointer", "cards"} /\ r.snap # NullId

\* C2 as stated: two overlapping executions on one dataset that fetched the
\* same content never both create a snapshot for it.
C2_NoDuplicateUnderOverlap ==
    \A e1, e2 \in Runs :
        (e1 # e2 /\ Created(run[e1]) /\ Created(run[e2])
            /\ Current(run[e1]).slug = Current(run[e2]).slug)
        => snapshots[run[e1].snap].sourceHash # snapshots[run[e2].snap].sourceHash

\* Every pointer is null or the id of a stored snapshot of its own dataset.
NoDangling ==
    \A slug \in DOMAIN datasets :
        LET id == datasets[slug].latestSnapshotId IN
        id = NullId \/ (id \in 1..Len(snapshots) /\ snapshots[id].datasetId = slug)

\* C3: in every state, overlapping runs and failed store calls included,
\* each dataset's latestSnapshotId is null or the id of a stored snapshot
\* of that dataset, and a step in which the pointer update fails leaves
\* every dataset row as it was.
C3_NoDanglingPointer ==
    /\ []NoDangling
    /\ [][\A e \in Runs :
            (run[e].pc = "pointer" /\ run'[e].pc = "loop")
            => (/\ datasets' = datasets
                /\ LastEntry(run'[e]).status \in ErrorStatuses
                /\ run[e].snap \in 1..Len(snapshots'))]_vars

\* A run created a snapshot, failed to move the pointer, and the pointer
\* still names the earlier snapshot while the new one is stored.
C3_Witness ==
    \E e \in Runs :
        /\ run[e].pc = "loop" /\ Len(run[e].results) > 0
        /\ LastEntry(run[e]).status \in ErrorStatuses
        /\ run[e].snap \in 1..Len(snapshots)
        /\ \A slug \in DOMAIN datasets :
              /\ datasets[slug].latestSnapshotId # run[e].snap
              /\ datasets[slug].latestSnapshotId # NullId
        /\ \A c \in DOMAIN cards : cards[c].snapshotId # run[e].snap

\* C4 as stated: on every path, a step that reports a dataset unchanged
\* stores no snapshot and leaves the dataset's lastRefreshedAt at the
\* current time.
C4_BumpOnUnchanged ==
    [][\A e \in Runs :
        (/\ Len(run'[e].results) = Len(run[e].results) + 1
         /\ LastEntry(run'[e]).status \in {"unchanged", "year_updated_data_unchanged"})
        => (/\ snapshots' = snapshots
            /\ datasets'[LastEntry(run'[e]).slug].lastRefreshedAt = now)]_vars

\* C5: when an execution (not overlapped by another) has just reported a
\* dataset refreshed, the dataset's latestSnapshotId is the snapshot that
\* execution created, that snapshot holds the fetched payload, and every
\* card of the dataset has it as snapshotId.
C5_Propagation ==
    LET r == run[1] IN
    (r.pc = "loop" /\ Len(r.results) > 0
        /\ LastEntry(r).status \in {"refreshed", "refreshed_with_new_year"})
    => LET slug == LastEntry(r).slug IN
       /\ r.snap \in 1..Len(snapshots)
       /\ snapshots[r.snap].datasetId = slug
       /\ snapshots[r.snap].payload = r.payload
       /\ snapshots[r.snap].sourceHash = SourceHash(r.payload)
       /\ datasets[slug].latestSnapshotId = r.snap
       /\ \A c \in DOMAIN cards :
             cards[c].datasetId = slug => cards[c].snapshotId = r.snap

\* A dataset was refreshed a second time, by a payload differing from the
\* one stored by the first, and its card follows.
C5_Witness ==
    LET r == run[1] IN
    /\ r.pc = "loop" /\ Len(r.results) > 0
    /\ LastEntry(r).status \in {"refreshed", "refreshed_with_new_year"}
    /\ \E c \in DOMAIN cards :
          cards[c].datasetId = LastEntry(r).slug /\ cards[c].snapshotId = r.snap
    /\ Len(snapshots) > 2

Deciding(e, kinds, rate) ==
    /\ run[e].pc = "loop"
    /\ run[e].kind \in kinds
    /\ ~run[e].force
    /\ run[e].idx <= Len(run[e].loaded)
    /\ run'[e] # run[e]
    /\ run[e].loaded[run[e].idx].refreshRate = rate
    /\ run[e].loaded[run[e].idx].lastRefreshedAt # NullTime
    /\ HasFetcher(run[e].loaded[run[e].idx].slug)

\* Ticks since the last refresh the run read.
Since(e) == now - run[e].loaded[run[e].idx].lastRefreshedAt

\* The decision is "skipped_too_recent", without a fetch.
Skips(e) ==
    /\ run'[e].pc = "loop"
    /\ run'[e].idx = run[e].idx + 1
    /\ Len(run'[e].results) = Len(run[e].results) + 1
    /\ LastEntry(run'[e]).status = "skipped_too_recent"
    /\ LastEntry(run'[e]).slug = run[e].loaded[run[e].idx].slug

\* The decision is to call the adapter.
Attempts(e) == run'[e].pc = "fetch" /\ run'[e].idx = run[e].idx

WeeklyRule(kinds) ==
    \A e \in Runs :
        Deciding(e, kinds, "weekly") =>
            /\ Since(e) = 48 * TicksPerHour => Skips(e)
            /\ Since(e) = 96 * TicksPerHour => Attempts(e)

\* C9 as stated: a batch run without force, on demand or scheduled, skips a
\* weekly dataset refreshed 48 hours ago and attempts one refreshed 96 hours
\* ago.
C9_WeeklyGating == [][WeeklyRule({"batch", "scheduled"})]_vars

\* C9, amended: an on-demand batch run without force skips a weekly dataset
\* refreshed 48 hours ago and attempts one refreshed 96 hours ago (its
\* threshold is 72 hours); the scheduled run skips a weekly dataset
\* refreshed less than 120 hours ago, so both at 48 and at 96 hours, and
\* attempts it from 120 hours on.
C9_WeeklyGatingOnDemand ==
    [][/\ WeeklyRule({"batch"})
       /\ \A e \in Runs :
             Deciding(e, {"batch"}, "weekly") =>
                IF Since(e) < 72 * TicksPerHour THEN Skips(e) ELSE Attempts(e)
       /\ \A e \in Runs :
             Deciding(e, {"scheduled"}, "weekly") =>
                IF Since(e) < 120 * TicksPerHour THEN Skips(e) ELSE Attempts(e)]_vars

\* An on-demand batch without force is about to fetch a weekly dataset it
\* read as refreshed 96 hours ago.
C9_Witness ==
    LET r == run[1] IN
    /\ r.kind = "batch" /\ ~r.force /\ r.pc = "fetch"
    /\ r.loaded[r.idx].refreshRate = "weekly"
    /\ now - r.loaded[r.idx].lastRefreshedAt = 96 * TicksPerHour

HourlyRule(kinds) ==
    \A e \in Runs :
        (Deciding(e, kinds, "hourly") /\ Since(e) < TicksPerHour \div 2) => Skips(e)

\* C10 as stated: a batch run without force, on demand or scheduled, skips
\* an hourly dataset refreshed less than half an hour ago.
C10_HourlyGating == [][HourlyRule({"batch", "scheduled"})]_vars

\* C10, amended: an on-demand batch run without force skips an hourly
\* dataset whose lastRefreshedAt is less than half an hour old and attempts
\* it otherwise, so it never fetches an hourly dataset within half an hour
\* of the last refresh recorded for it; the scheduled run has no hourly
\* threshold and attempts every hourly dataset on every run.
C10_HourlyGatingOnDemand ==
    /\ [][/\ HourlyRule({"batch"})
          /\ \A e \in Runs :
                Deciding(e, {"batch"}, "hourly") =>
                   IF Since(e) < TicksPerHour \div 2 THEN Skips(e) ELSE Attempts(e)
          /\ \A e \in Runs : Deciding(e, {"scheduled"}, "hourly") => Attempts(e)]_vars
    /\ [](\A e \in Runs :
             (/\ run[e].kind = "batch" /\ ~run[e].force /\ run[e].pc = "fetch"
              /\ run[e].loaded[run[e].idx].refreshRate = "hourly"
              /\ run[e].loaded[run[e].idx].lastRefreshedAt # NullTime)
             => 2 * (now - run[e].loaded[run[e].idx].lastRefreshedAt) >= TicksPerHour)

\* A quarter of an hour after a run stored a fetched snapshot of an hourly
\* dataset, an on-demand batch without force has just skipped it.
C10_Witness ==
    LET r == run[1] IN
    /\ r.kind = "batch" /\ ~r.force /\ r.pc = "loop" /\ Len(r.results) > 0
    /\ LastEntry(r).status = "skipped_too_recent"
    /\ LET ds == datasets[LastEntry(r).slug] IN
       /\ ds.refreshRate = "hourly"
       /\ now > ds.lastRefreshedAt
       /\ 2 * (now - ds.lastRefreshedAt) < TicksPerHour
       /\ snapshots[ds.latestSnapshotId].sourceHash # NoHash

\* C11: an on-demand batch with force=true decides for the adapter call on
\* every dataset that has a fetcher, whatever its refreshRate and
\* lastRefreshedAt, and its results never hold skipped_too_recent.
C11_ForceBypassesGate ==
    /\ [][\A e \in Runs :
            (/\ run[e].pc = "loop" /\ run[e].kind = "batch" /\ run[e].force
             /\ run[e].idx <= Len(run[e].loaded)
             /\ run'[e] # run[e]
             /\ HasFetcher(run[e].loaded[run[e].idx].slug))
            => Attempts(e)]_vars
    /\ [](\A e \in Runs :
            (run[e].kind = "batch" /\ run[e].force) =>
                \A i \in 1..Len(run[e].results) :
                    HasFetcher(run[e].results[i].slug)
                        => run[e].results[i].status # "skipped_too_recent")

\* A forced batch is about to fetch a dataset that was refreshed at this
\* very time, which an unforced batch would skip.
C11_Witness ==
    LET r == run[1] IN
    /\ r.kind = "batch" /\ r.force /\ r.pc = "fetch"
    /\ HasFetcher(r.loaded[r.idx].slug)
    /\ RouteGated(r.loaded[r.idx], FALSE, now)
    /\ snapshots[r.loaded[r.idx].latestSnapshotId].sourceHash # NoHash

\* ---------------------------------------------- properties of the watchdog

\* The watchdog run has its probe results and has stamped them.
Stamped(r) == r.kind = "watchdog" /\ r.pc \notin {"idle", "probe", "stamp"}

\* C12: in a scheduled watchdog run, the datasets worked on are exactly the
\* probes with changed = TRUE and no error, in order; at the head of each
\* the run decides for the adapter call when the dataset is stored and has
\* a fetcher, whatever its lastRefreshedAt, and never skips it as too
\* recent; it fetches no other dataset.
C12_WatchdogBypass ==
    /\ [][\A e \in Runs :
            (/\ run[e].pc = "loop" /\ run[e].kind = "watchdog"
             /\ run[e].idx <= Len(run[e].changed)
             /\ run'[e] # run[e]
             /\ \E i \in 1..Len(run[e].loaded) :
                   run[e].loaded[i].slug = run[e].changed[run[e].idx].slug
             /\ HasFetcher(run[e].changed[run[e].idx].slug))
            => Attempts(e)]_vars
    /\ [](\A e \in Runs :
            Stamped(run[e]) =>
                /\ run[e].changed = ChangedProbes(run[e].probes)
                /\ \A i \in 1..Len(run[e].probes) :
                      (run[e].probes[i].changed /\ run[e].probes[i].error = "")
                      => \E j \in 1..Len(run[e].changed) :
                            run[e].changed[j] = run[e].probes[i]
                /\ Len(run[e].results) <= Len(run[e].changed)
                /\ \A i \in 1..Len(run[e].results) :
                      /\ run[e].results[i].slug = run[e].changed[i].slug
                      /\ run[e].results[i].status # "skipped_too_recent"
                /\ run[e].pc \in {"fetch", "create", "pointer", "cards", "year"} =>
                      /\ run[e].idx = Len(run[e].results) + 1
                      /\ run[e].changed[run[e].idx].changed
                      /\ run[e].changed[run[e].idx].error = "")

\* A watchdog run is about to fetch a weekly dataset that the scheduled
\* refresh would skip as too recent.
C12_Witness ==
    LET r == run[1] IN
    /\ r.kind = "watchdog" /\ r.pc = "fetch"
    /\ CronGated(Current(r), now)
    /\ CronGated(datasets[Current(r).slug], now)

\* The step in which watchdog run e reports the dataset it works on as
\* refreshed or as unchanged.
WatchdogSucceeds(e) ==
    /\ run[e].kind = "watchdog"
    /\ run[e].pc \in {"fetch", "year", "cards"}
    /\ Len(run'[e].results) = Len(run[e].results) + 1
    /\ LastEntry(run'[e]).status \in {"refreshed_with_new_year", "year_updated_data_unchanged"}

\* C13: when a watchdog-triggered refresh of a dataset whose probe reported
\* changed with a detected year above the previous year succeeds, the
\* dataset's latestSourceYear is the detected year at that moment, both
\* when a snapshot was created and when the payload was unchanged (and
\* then no snapshot was created).
C13_YearAdvance ==
    [][\A e \in Runs :
        (/\ WatchdogSucceeds(e)
         /\ run[e].changed[run[e].idx].detectedYear > run[e].changed[run[e].idx].previousYear)
        => LET slug == run[e].changed[run[e].idx].slug IN
           /\ datasets'[slug].latestSourceYear = run[e].changed[run[e].idx].detectedYear
           /\ LastEntry(run'[e]).newYear = run[e].changed[run[e].idx].detectedYear
           /\ LastEntry(run'[e]).status = "year_updated_data_unchanged"
                 => snapshots' = snapshots
           /\ LastEntry(run'[e]).status = "refreshed_with_new_year"
                 => /\ datasets'[slug].latestSnapshotId = run[e].snap
                    /\ snapshots[run[e].snap].collectedAt >= run[e].changed[run[e].idx].checkedAt]_vars

\* A watchdog run found the payload unchanged and advanced the year from a
\* known earlier year to the detected one.
C13_Witness ==
    LET r == run[1] IN
    /\ r.kind = "watchdog" /\ r.pc = "loop" /\ Len(r.results) > 0
    /\ LastEntry(r).status = "year_updated_data_unchanged"
    /\ r.changed[r.idx - 1].previousYear # NullYear
    /\ r.changed[r.idx - 1].detectedYear > r.changed[r.idx - 1].previousYear
    /\ datasets[LastEntry(r).slug].latestSourceYear = r.changed[r.idx - 1].detectedYear

\* C14 as stated: no step of any run lowers a dataset's latestSourceYear.
C14_YearMonotone ==
    [][\A slug \in DOMAIN datasets :
        datasets'[slug].latestSourceYear >= datasets[slug].latestSourceYear]_vars

\* ------------------------------------------- properties of the auth gate

OnDemandKinds == {"batch", "single", "probeAll", "probeOne"}

\* Run e is an on-demand request that got past the auth check.
Admitted(e) ==
    run[e].kind \in OnDemandKinds /\ run[e].pc \notin {"idle", "unauthorized"}

YearChoices == {NullYear, 2023}

\* What the request of probe i may meet during a fan-out.
FanFeeds(i) ==
    CASE i \in 1..3 -> {NetErr, Json(<<>>), Json(<<Commit(2024, 11, <<2024>>)>>)}
      [] i \in 4..6 -> {HttpErr, Json(<<"meta", <<>> >>),
                        Json(<<"meta", <<Entry2(2024, 5)>> >>)}
      [] OTHER -> {BadJson, Json(<<2024>>)}

Pending == [status |-> "pending", value |-> <<>>, reason |-> NoMessage]

\* runAllProbes starts the seven probes at once.
Launch ==
    /\ fan.phase = "idle"
    /\ \E y \in YearChoices :
         fan' = [phase |-> "launched",
                 knownYears |-> [s \in {ProbeSlugs[i] : i \in 1..Len(ProbeSlugs)} |-> y],
                 resps |-> [i \in 1..Len(ProbeSlugs) |-> NoResp],
                 settled |-> [i \in 1..Len(ProbeSlugs) |-> Pending],
                 results |-> <<>>]
    /\ UNCHANGED <<now, datasets, snapshots, cards, run, world, probe, adapter>>

\* The promise of probe i settles, in any order with the others.
Settle(i) ==
    /\ fan.phase = "launched"
    /\ fan.settled[i] = Pending
    /\ \E resp \in FanFeeds(i) :
         fan' = [fan EXCEPT !.resps[i] = resp,
                            !.settled[i] = Settled(fan.knownYears, i, resp, now)]
    /\ UNCHANGED <<now, datasets, snapshots, cards, run, world, probe, adapter>>

\* Promise.allSettled resolves once every promise has settled.
Join ==
    /\ fan.phase = "launched"
    /\ \A i \in 1..Len(ProbeSlugs) : fan.settled[i] # Pending
    /\ fan' = [fan EXCEPT !.phase = "resolved",
                          !.results = [i \in 1..Len(ProbeSlugs) |->
                                          Collect(fan.settled[i], now)]]
    /\ UNCHANGED <<now, datasets, snapshots, cards, run, world, probe, adapter>>

InitFan ==
    /\ Seeded(<<"co2-emissions">>)
    /\ world = World(AdapterOutcomes, FALSE, 0, 0, DeadResps)

NextFan == Launch \/ (\E i \in 1..Len(ProbeSlugs) : Settle(i)) \/ Join

SpecFan == InitFan /\ [][NextFan]_vars

\* C7: a runAllProbes call never has a rejected probe, and once it has
\* resolved it holds exactly one result per launched probe, in launch
\* order and under that probe's slug, each the result of that probe alone
\* on the response it met, whatever the others met and in whatever order
\* they settled; the result of a probe whose request threw has
\* changed = FALSE and a non-empty error.
C7_FanOutIsolation ==
    /\ fan.phase = "launched" =>
          \A i \in 1..Len(ProbeSlugs) : fan.settled[i].status \in {"pending", "fulfilled"}
    /\ fan.phase = "resolved" =>
          /\ Len(fan.results) = Len(ProbeSlugs)
          /\ \A i \in 1..Len(ProbeSlugs) :
                /\ fan.results[i].slug = ProbeSlugs[i]
                /\ fan.results[i] =
                      RunProbe(ProbeSlugs[i], KnownYear(fan.knownYears, ProbeSlugs[i]),
                               fan.resps[i], now)
                /\ ProbeThrows(ProbeSlugs[i], fan.resps[i]) # "" =>
                      /\ ~fan.results[i].changed
                      /\ fan.results[i].error # ""

\* The call resolved with the first probe failed and the second reporting
\* a change.
C7_Witness ==
    /\ fan.phase = "resolved"
    /\ ProbeThrows(ProbeSlugs[1], fan.resps[1]) # ""
    /\ fan.results[1].error # ""
    /\ fan.results[2].changed
    /\ fan.results[2].error = ""

\* ------------------------------------------------------ one runProbe call

\* Commits, World Bank bodies and WID bodies a probe may read.
ProbeYears == 2023..2025
CommitMonths == {9, 10, 11}
Messages == {<<>>, <<2023>>, <<2024>>, <<2025>>, <<1999, 2024>>, <<2023, 2025>>}
Commits == {Commit(y, m, msg) : y \in ProbeYears, m \in CommitMonths, msg \in Messages}
GitHubResps ==
    {NetErr, HttpErr, BadJson, Json(<<>>), Json(<<BrokenCommit>>)}
        \cup {Json(<<c>>) : c \in Commits}
WorldBankEntries ==
    {<<>>, <<Entry2(2024, NullValue)>>, <<Entry2(2024, 5)>>,
     <<Entry2(2025, NullValue), Entry2(2024, 5), Entry2(2023, 4)>>,
     <<Entry2(2023, 4), Entry2(2025, 6)>>}
WorldBankResps ==
    {NetErr, HttpErr, BadJson, Json(<<>>), Json(<<"message">>)}
        \cup {Json(<<"meta", es>>) : es \in WorldBankEntries}
WIDResps == {NetErr, HttpErr, BadJson, Json(<<>>), Json(<<2023>>), Json(<<2023, 2025, 2024>>)}

\* The responses the endpoint of a slug's probe may give.
RespsOf(slug) ==
    CASE slug \in {"co2-emissions", "renewable-energy", "ev-adoption"} -> GitHubResps
      [] slug \in {"military-spending", "internet-access", "smartphone-access"} ->
            WorldBankResps
      [] slug = "wealth-inequality" -> WIDResps
      [] OTHER -> {NoResp}

\* runProbe is called for a slug and the year known for it.
Probing(slug, currentYear, resp) ==
    [phase |-> "called", slug |-> slug, currentYear |-> currentYear, resp |-> resp,
     result |-> <<>>]

\* The call returns its WatchdogResult.
ProbeReturns ==
    /\ probe.phase = "called"
    /\ probe' = [probe EXCEPT !.phase = "returned",
                              !.result = RunProbe(probe.slug, probe.currentYear,
                                                  probe.resp, now)]
    /\ UNCHANGED <<now, datasets, snapshots, cards, run, world, fan, adapter>>

InitProbe ==
    /\ now = 0
    /\ datasets = [s \in {"co2-emissions"} |-> SeedDataset(<<"co2-emissions">>, 1)]
    /\ snapshots = <<SeedSnapshot(<<"co2-emissions">>, 1)>>
    /\ cards = SeedCards(<<"co2-emissions">>)
    /\ run = [e \in Runs |-> IdleRun]
    /\ world = World(AdapterOutcomes, FALSE, 0, 0, DeadResps)
    /\ fan = NoFan
    /\ adapter = NoCall
    /\ \E slug \in {ProbeSlugs[i] : i \in 1..Len(ProbeSlugs)} \cup {"bitcoin-price"},
          y \in {NullYear} \cup ProbeYears :
         \E resp \in RespsOf(slug) : probe = Probing(slug, y, resp)

NextProbe == ProbeReturns

SpecProbe == InitProbe /\ [][NextProbe]_vars

\* A response the probe of a slug cannot complete on: one its try block
\* throws for, or a World Bank body with no entry in the requested range.
CannotComplete(slug, resp) ==
    \/ ProbeThrows(slug, resp) # ""
    \/ /\ slug \in {"military-spending", "internet-access", "smartphone-access"}
       /\ resp.kind = "json"
       /\ (Len(resp.body) < 2 \/ Len(resp.body[2]) = 0)

\* C8 as stated: a probe that cannot complete returns changed = FALSE with
\* the error populated.
C8_ErrorBoundary ==
    (probe.phase = "returned" /\ CannotComplete(probe.slug, probe.resp))
    => (~probe.result.changed /\ probe.result.error # "")

\* -------------------------------------------------- one fetchDataset call

\* The upstream sources an adapter requests, in the order of its code.
Chain(slug) ==
    CASE slug = "bitcoin-price" -> <<"CoinGecko", "Coinlore", "CoinDesk">>
      [] slug = "ethereum-price" -> <<"CoinGecko", "Coinlore">>
      [] slug = "solar-activity-today" -> <<"NOAA">>
      [] OTHER -> <<>>

ChainSources(slug) == {Chain(slug)[k] : k \in 1..Len(Chain(slug))}

\* What a source may answer: no answer, a non-success status, a body that is
\* not JSON, a JSON body without the field the adapter reads, or one with
\* the figure.
Figures == {1, 2}
SourceResps ==
    {NetErr, HttpErr, BadJson, Json(<<>>)} \cup {Json(<<v>>) : v \in Figures}

\* The source is unavailable: a network failure or a non-success status.
Unavailable(resp) == resp.kind \in {"neterr", "http"}

\* res.ok, a body that parses, and the field the adapter reads in it.
Usable(resp) == resp.kind = "json" /\ Len(resp.body) > 0

\* The payload of the price adapters: the price, and notes naming the minute
\* and the source.
PricePayload(price, source, t) ==
    << <<"total", price>>, <<"notes", <<t, source>> >> >>

\* The payloads of fetchSolarActivityToday: the measured sunspot number, and
\* the one of its last return statement.
SunspotPayload(ssn) == << <<"total", ssn>>, <<"notes", <<ssn>> >> >>
SunspotDefault == << <<"total", 120>>, <<"notes", <<>> >> >>

\* fetchDataset is called for a slug, its sources answering as `sources`.
Calling(slug, sources) ==
    [NoCall EXCEPT !.pc = "called", !.slug = slug, !.sources = sources]

Requested(a, source) == [a EXCEPT !.requested = Append(@, source)]
Returned(a, payload) ==
    [a EXCEPT !.pc = "returned", !.result = [ok |-> TRUE, payload |-> payload]]

TryEverySource(a, source, next, t) ==
    IF Usable(a.sources[source])
    THEN [Returned(Requested(a, source),
                   PricePayload(a.sources[source].body[1], source, t))
             EXCEPT !.pc = next]
    ELSE [Requested(a, source) EXCEPT !.pc = next]

\* One source of a price adapter: request it, return its price if the answer
\* is usable, go on to `next` otherwise ("thrown" after the last source).
Try(a, source, next, t) ==
    IF Usable(a.sources[source])
    THEN Returned(Requested(a, source),
                  PricePayload(a.sources[source].body[1], source, t))
    ELSE [Requested(a, source) EXCEPT !.pc = next]

\* fetchDataset: the registry lookup.
FetchDataset ==
    /\ adapter.pc = "called"
    /\ adapter' = IF HasFetcher(adapter.slug)
                  THEN [adapter EXCEPT !.pc = Chain(adapter.slug)[1]]
                  ELSE [adapter EXCEPT !.pc = "thrown"]
    /\ UNCHANGED <<now, datasets, snapshots, cards, run, world, fan, probe>>

\* fetchBitcoinPrice: CoinGecko and Coinlore each in a try block whose catch
\* falls through, CoinDesk outside any.
BitcoinCoinGecko ==
    /\ adapter.slug = "bitcoin-price" /\ adapter.pc = "CoinGecko"
    /\ adapter' = Try(adapter, "CoinGecko", "Coinlore", now)
    /\ UNCHANGED <<now, datasets, snapshots, cards, run, world, fan, probe>>

BitcoinCoinlore ==
    /\ adapter.slug = "bitcoin-price" /\ adapter.pc = "Coinlore"
    /\ adapter' = Try(adapter, "Coinlore", "CoinDesk", now)
    /\ UNCHANGED <<now, datasets, snapshots, cards, run, world, fan, probe>>

BitcoinCoinDesk ==
    /\ adapter.slug = "bitcoin-price" /\ adapter.pc = "CoinDesk"
    /\ adapter' = Try(adapter, "CoinDesk", "thrown", now)
    /\ UNCHANGED <<now, datasets, snapshots, cards, run, world, fan, probe>>

\* fetchEthereumPrice: CoinGecko in the try block, Coinlore in its catch and
\* read without a status check (a non-success answer has no ticker to read).
EthereumCoinGecko ==
    /\ adapter.slug = "ethereum-price" /\ adapter.pc = "CoinGecko"
    /\ adapter' = Try(adapter, "CoinGecko", "Coinlore", now)
    /\ UNCHANGED <<now, datasets, snapshots, cards, run, world, fan, probe>>

EthereumCoinlore ==
    /\ adapter.slug = "ethereum-price" /\ adapter.pc = "Coinlore"
    /\ adapter' = Try(adapter, "Coinlore", "thrown", now)
    /\ UNCHANGED <<now, datasets, snapshots, cards, run, world, fan, probe>>

\* fetchSolarActivityToday: the NOAA request in a try block with an empty
\* catch, and a return statement after it.
SolarNOAA ==
    /\ adapter.slug = "solar-activity-today" /\ adapter.pc = "NOAA"
    /\ adapter' = IF Usable(adapter.sources["NOAA"])
                  THEN Returned(Requested(adapter, "NOAA"),
                                SunspotPayload(adapter.sources["NOAA"].body[1]))
                  ELSE Returned(Requested(adapter, "NOAA"), SunspotDefault)
    /\ UNCHANGED <<now, datasets, snapshots, cards, run, world, fan, probe>>

InitAdapters ==
    /\ now = 0
    /\ datasets = [s \in {"co2-emissions"} |-> SeedDataset(<<"co2-emissions">>, 1)]
    /\ snapshots = <<SeedSnapshot(<<"co2-emissions">>, 1)>>
    /\ cards = SeedCards(<<"co2-emissions">>)
    /\ run = [e \in Runs |-> IdleRun]
    /\ world = World(AdapterOutcomes, FALSE, 0, 0, DeadResps)
    /\ fan = NoFan
    /\ probe = NoProbe
    /\ \E slug \in {"bitcoin-price", "ethereum-price", "solar-activity-today",
                    "no-such-dataset"} :
         \E sources \in [ChainSources(slug) -> SourceResps] :
            adapter = Calling(slug, sources)

NextAdapters ==
    \/ FetchDataset
    \/ BitcoinCoinGecko
    \/ BitcoinCoinlore
    \/ BitcoinCoinDesk
    \/ EthereumCoinGecko
    \/ EthereumCoinlore
    \/ SolarNOAA

SpecAdapters == InitAdapters /\ [][NextAdapters]_vars

\* The call is over.
Done(a) == a.pc \in {"returned", "thrown"}

\* C16 as stated: a fetchDataset call of an adapter that reads upstream
\* sources, all of them unavailable, fails with an error and returns no
\* payload.
C16_FailLoudly ==
    (/\ Done(adapter)
     /\ Chain(adapter.slug) # <<>>
     /\ \A source \in ChainSources(adapter.slug) :
           Unavailable(adapter.sources[source]))
    => (adapter.pc = "thrown" /\ ~adapter.result.ok)

\* C17: the sources of a call are requested in chain order, each only after
\* every earlier one failed to give a usable answer (so none after one that
\* did), and the price returned is that of the last one requested, which is
\* the first in chain order with a usable answer.
C17_SequentialChain ==
    LET chain == Chain(adapter.slug)
        n == Len(adapter.requested)
    IN
    /\ n <= Len(chain)
    /\ \A k \in 1..n :
          /\ adapter.requested[k] = chain[k]
          /\ \A j \in 1..(k - 1) : ~Usable(adapter.sources[chain[j]])
    /\ (adapter.result.ok /\ adapter.slug \in {"bitcoin-price", "ethereum-price"}) =>
          /\ adapter.pc = "returned"
          /\ n > 0
          /\ Usable(adapter.sources[chain[n]])
          /\ adapter.result.payload =
                PricePayload(adapter.sources[chain[n]].body[1], chain[n], now)

\* The Bitcoin adapter returned Coinlore's price after CoinGecko failed,
\* with CoinDesk available and never requested.
C17_Witness ==
    /\ adapter.slug = "bitcoin-price"
    /\ adapter.pc = "returned"
    /\ adapter.requested = <<"CoinGecko", "Coinlore">>
    /\ ~Usable(adapter.sources["CoinGecko"])
    /\ Usable(adapter.sources["CoinDesk"])
    /\ adapter.result.payload =
          PricePayload(adapter.sources["Coinlore"].body[1], "Coinlore", now)

\* --------------------------------------------------- properties of a stall

\* The kinds of run that iterate over datasets or probes.
BatchKinds == {"batch", "scheduled", "watchdog"}

\* C18 as stated: a batch refresh run or a watchdog run that has started
\* eventually completes and returns, whatever the upstream requests do.
C18_BoundedStall ==
    \A e \in {1} :
        (run[e].kind \in BatchKinds /\ run[e].pc # "idle") ~> (run[e].pc = "idle")

\* ------------------------------------- properties of the watchdog's writes

HasProbe(slug) == \E i \in 1..Len(ProbeSlugs) : ProbeSlugs[i] = slug

\* A run of all the probes, scheduled or on demand, is past its timestamp
\* update.
TimestampsWritten(r) ==
    r.kind \in {"watchdog", "probeAll"} /\ r.pc \in {"loop", "fetch", "create", "pointer",
                                                   "cards", "year"}

ProbeOf(r, slug) == r.probes[CHOOSE i \in 1..Len(r.probes) : r.probes[i].slug = slug]

\* C19: once a run of all the probes is past its timestamp update, every
\* stored dataset with a registered probe carries the time of that update
\* as lastWatchdogAt, whatever its probe reported, and keeps it through the
\* refreshes the run triggers, failed ones included.
C19_WatchdogTimestamp ==
    \A e \in {1} :
        TimestampsWritten(run[e]) =>
            \A s \in DOMAIN datasets : HasProbe(s) => datasets[s].lastWatchdogAt = now

\* A scheduled watchdog run whose co2-emissions probe reported a change and
\* whose military-spending probe failed has seen the triggered refresh
\* fail; both datasets carry the timestamp.
C19_Witness ==
    LET r == run[1] IN
    /\ r.kind = "watchdog"
    /\ TimestampsWritten(r)
    /\ ProbeOf(r, "co2-emissions").changed
    /\ ProbeOf(r, "military-spending").error # ""
    /\ Len(r.results) > 0
    /\ LastEntry(r).slug = "co2-emissions"
    /\ LastEntry(r).status \in ErrorStatuses
    /\ \A s \in DOMAIN datasets : datasets[s].lastWatchdogAt = now

\* The snapshots of a dataset.
SnapshotsOf(snaps, slug) == {i \in 1..Len(snaps) : snaps[i].datasetId = slug}

\* The probe of a slug reported no change, or an error.
Quiet(p) == ~p.changed \/ p.error # ""

\* C20: no step of a scheduled watchdog run calls the adapter of a dataset
\* whose probe reported changed = false or an error, adds a snapshot to it,
\* or changes any field of it other than lastWatchdogAt.
C20_WatchdogFrame ==
    [][\A e \in {1} :
          (run[e].kind = "watchdog" \/ run'[e].kind = "watchdog") =>
             \A i \in 1..Len(run'[e].probes) :
                LET p == run'[e].probes[i] IN
                (Quiet(p) /\ p.slug \in DOMAIN datasets) =>
                   /\ datasets'[p.slug] =
                         [datasets[p.slug] EXCEPT
                             !.lastWatchdogAt = datasets'[p.slug].lastWatchdogAt]
                   /\ SnapshotsOf(snapshots', p.slug) = SnapshotsOf(snapshots, p.slug)
                   /\ (run'[e].pc \in {"fetch", "create", "pointer", "cards", "year"}
                          => Current(run'[e]).slug # p.slug)]_vars

\* A scheduled watchdog run has refreshed co2-emissions, whose probe
\* reported a change, while military-spending, whose probe failed, is as
\* the run read it except for lastWatchdogAt.
C20_Witness ==
    LET r == run[1] IN
    /\ r.kind = "watchdog"
    /\ TimestampsWritten(r)
    /\ Quiet(ProbeOf(r, "military-spending"))
    /\ Len(r.results) > 0
    /\ LastEntry(r).slug = "co2-emissions"
    /\ LastEntry(r).status \in {"refreshed", "refreshed_with_new_year"}
    /\ \E d \in {r.loaded[i] : i \in 1..Len(r.loaded)} :
          /\ d.slug = "military-spending"
          /\ d.lastWatchdogAt # now
          /\ datasets["military-spending"] = [d EXCEPT !.lastWatchdogAt = now]

\* ------------------------------------------- properties of the known year

RefreshedStatuses == {"refreshed", "refreshed_with_new_year"}

\* C21 as stated: a dataset that an execution has just reported refreshed
\* has a known latestSourceYear.
C21_YearKnown ==
    \A e \in {1} :
        (Len(run[e].results) > 0 /\ LastEntry(run[e]).status \in RefreshedStatuses)
        => datasets[LastEntry(run[e]).slug].latestSourceYear # NullYear

\* ----------------------------------------------- properties of the history

\* C22: no step removes or rewrites a snapshot: every snapshot there is
\* stays under its id with its datasetId, payload, sourceHash and
\* collectedAt, and the list only grows.
C22_AppendOnly ==
    [][/\ Len(snapshots') >= Len(snapshots)
       /\ \A i \in 1..Len(snapshots) : snapshots'[i] = snapshots[i]]_vars

\* Two snapshots have been created after the seeded one, which is as it was
\* seeded.
C22_Witness ==
    /\ DOMAIN datasets = {"co2-emissions"}
    /\ Len(snapshots) = 3
    /\ snapshots[1] = SeedSnapshot(<<"co2-emissions">>, 1)
    /\ snapshots[2].payload # snapshots[3].payload

\* ------------------------------------------- properties of the fingerprint

\* Two payloads with the same fields and the same value for each.
SameValues(p, q) == {p[i] : i \in 1..Len(p)} = {q[i] : i \in 1..Len(q)}

\* C23 as stated: a fetched payload with the field values of the dataset's
\* latest snapshot has its fingerprint, and the change detector does not go
\* on to create a snapshot for it, whatever the order its fields were
\* assembled in.
C23_FingerprintStability ==
    [][\A e \in {1} :
          (/\ run[e].pc = "fetch"
           /\ run'[e].pc = "create"
           /\ Current(run[e]).latestSnapshotId # NullId)
          => LET latest == snapshots[Current(run[e]).latestSnapshotId] IN
             ~SameValues(run'[e].payload, latest.payload)]_vars

\* --------------------------------------------- properties of the CO2 probe

\* The years from 2000 on that a commit message mentions, and the first of
\* them in reading order (0 when there is none).
YearsIn(message) == {message[i] : i \in 1..Len(message)} \cap (2000..2099)
FirstYearIn(message) ==
    IF YearsIn(message) = {} THEN 0
    ELSE message[CHOOSE i \in 1..Len(message) :
                    /\ message[i] \in YearsIn(message)
                    /\ \A j \in 1..(i - 1) : message[j] \notin YearsIn(message)]

\* The CO2 probe has returned for a commit it could read, given a known
\* previous year.
CO2Decided ==
    /\ probe.phase = "returned"
    /\ probe.slug = "co2-emissions"
    /\ probe.currentYear # NullYear
    /\ GitHubThrows(probe.resp) = ""

\* The month rule: a commit of month 10 or later in the previous year or
\* later gives the commit year, changed exactly when the commit year is
\* above the previous year or the month is 11 or later.
MonthRule(c, prev, res) ==
    (c.month >= 10 /\ c.year >= prev) =>
        /\ res.detectedYear = c.year
        /\ res.changed <=> (c.year > prev \/ c.month >= 11)

\* C24 as stated: given a known previous year, a message that mentions a
\* year above it gives changed with that year; otherwise the month rule
\* applies.
C24_RulePrecedence ==
    CO2Decided =>
        LET c == probe.resp.body[1]
            prev == probe.currentYear
            res == probe.result
        IN  IF \E y \in YearsIn(c.message) : y > prev
            THEN res.changed /\ res.detectedYear \in YearsIn(c.message)
                 /\ res.detectedYear > prev
            ELSE MonthRule(c, prev, res)

\* C24, amended: the year that counts is the first one the message
\* mentions.  If it is above the previous year the result is changed with
\* that year; otherwise (none mentioned, or the first one not above the
\* previous year) the month rule applies.
C24_RulePrecedenceFirstMention ==
    CO2Decided =>
        LET c == probe.resp.body[1]
            prev == probe.currentYear
            res == probe.result
        IN  IF FirstYearIn(c.message) > prev
            THEN res.changed /\ res.detectedYear = FirstYearIn(c.message)
            ELSE MonthRule(c, prev, res)

\* The commit "Update data through 2024" of 2024-11 with previous year 2024
\* is reported as a change.
C24_Witness ==
    /\ CO2Decided
    /\ probe.currentYear = 2024
    /\ probe.resp.body[1] = Commit(2024, 11, <<2024>>)
    /\ probe.result.changed
    /\ probe.result.detectedYear = 2024

\* -------------------------------------- properties of the World Bank probe

WorldBankSlugs == {"military-spending", "internet-access", "smartphone-access"}

\* A World Bank probe has returned for a body with entries, given a known
\* previous year.
WorldBankDecided ==
    /\ probe.phase = "returned"
    /\ probe.slug \in WorldBankSlugs
    /\ probe.currentYear # NullYear
    /\ WorldBankThrows(probe.resp) = ""
    /\ Len(probe.resp.body) >= 2
    /\ Len(probe.resp.body[2]) > 0

\* The years of the entries that have a value.
ValuedYears(entries) ==
    {entries[i].date : i \in {j \in 1..Len(entries) : entries[j].value # NullValue}}

\* C25: given a known previous year, the probe reports as detectedYear the
\* greatest year among the entries with a value and changed exactly when
\* that year is above the previous year; entries without a value count for
\* nothing (with no valued entry there is no detected year and no change).
C25_LatestNonNullYear ==
    WorldBankDecided =>
        LET valued == ValuedYears(probe.resp.body[2])
            res == probe.result
        IN  IF valued = {}
            THEN res.detectedYear = NullYear /\ ~res.changed
            ELSE /\ res.detectedYear \in valued
                 /\ \A y \in valued : y <= res.detectedYear
                 /\ res.changed <=> (res.detectedYear > probe.currentYear)

\* Previous year 2023, entries 2025 without a value, 2024 and 2023 with one:
\* changed, detected year 2024.
C25_Witness ==
    /\ WorldBankDecided
    /\ probe.currentYear = 2023
    /\ probe.resp.body[2] = <<Entry2(2025, NullValue), Entry2(2024, 5), Entry2(2023, 4)>>
    /\ probe.result.changed
    /\ probe.result.detectedYear = 2024

\* ----------------------------------- properties of the reported statuses

\* The row of a slug as the run read it when it started.
LoadedRow(r, slug) == r.loaded[CHOOSE i \in 1..Len(r.loaded) : r.loaded[i].slug = slug]

\* C26 as stated: when a refresh execution has just reported a dataset as
\* error or unchanged, it created no snapshot for it; when it has just
\* reported it as error, unchanged, skipped_too_recent or no_fetcher, the
\* dataset's latestSnapshotId is the one the execution read at its start.
C26_StatusReflectsStore ==
    \A e \in {1} :
        LET r == run[e] IN
        (/\ r.kind \in {"batch", "single", "scheduled"}
         /\ r.pc = "loop"
         /\ Len(r.results) > 0)
        => LET last == LastEntry(r) IN
           /\ last.status \in ErrorStatuses \cup {"unchanged"} => r.snap = NullId
           /\ last.status \in ErrorStatuses
                               \cup {"unchanged", "skipped_too_recent", "no_fetcher"}
                 => datasets[last.slug].latestSnapshotId
                       = LoadedRow(r, last.slug).latestSnapshotId

\* ------------------------------------------ properties of a changed result

\* C27: a result with changed = TRUE, of any probe on any response, has a
\* detected year, and one not below the previous year when that is known.
C27_ChangedHasYear ==
    (probe.phase = "returned" /\ probe.result.changed) =>
        /\ probe.result.detectedYear # NullYear
        /\ probe.result.previousYear = probe.currentYear
        /\ probe.currentYear # NullYear => probe.result.detectedYear >= probe.currentYear

\* The CO2 probe reported a change by its month rule with the detected year
\* equal to the previous one.
C27_Witness ==
    /\ probe.phase = "returned"
    /\ probe.slug = "co2-emissions"
    /\ probe.result.changed
    /\ probe.currentYear # NullYear
    /\ probe.result.detectedYear = probe.currentYear

\* The consequence for the store, without overlapping executions: a step of
\* a watchdog run that writes a dataset at its pointer or year update leaves
\* a known latestSourceYear, not below the one before.
WatchdogWritesUsableYear ==
    [][\A e \in {1} :
          (run[e].kind = "watchdog" /\ run[e].pc \in {"pointer", "year"}
              /\ datasets' # datasets)
          => LET slug == Current(run[e]).slug IN
             /\ datasets'[slug].latestSourceYear # NullYear
             /\ datasets'[slug].latestSourceYear >= datasets[slug].latestSourceYear]_vars

\* ------------------------------------------- properties of the card pointer

\* The execution is at its end and reported every dataset refreshed.
FinishedRefreshed(r) ==
    /\ r.kind \in {"batch", "single", "scheduled", "watchdog"}
    /\ Returning(r)
    /\ Len(r.results) > 0
    /\ \A i \in 1..Len(r.results) : r.results[i].status \in RefreshedStatuses

\* C28 as stated: when two overlapping executions have both finished,
\* each having refreshed the dataset without error, every card of the
\* dataset is on the snapshot the dataset points to.
C28_CardsAgreeUnderOverlap ==
    (\A e \in Runs : FinishedRefreshed(run[e])) =>
        \A c \in DOMAIN cards :
            cards[c].snapshotId = datasets[cards[c].datasetId].latestSnapshotId

\* ----------------------------------- properties of the on-demand watchdog

ProbeRouteKinds == {"probeAll", "probeOne"}

\* C29: no step of an on-demand watchdog request, all probes or one, calls
\* an adapter, adds a snapshot, changes a card, or changes any field of a
\* dataset other than lastWatchdogAt, whatever the probes report.
C29_OnDemandReadOnly ==
    [][\A e \in {1} :
          (run[e].kind \in ProbeRouteKinds \/ run'[e].kind \in ProbeRouteKinds) =>
             /\ snapshots' = snapshots
             /\ cards' = cards
             /\ \A s \in DOMAIN datasets :
                   datasets'[s] = [datasets[s] EXCEPT
                                      !.lastWatchdogAt = datasets'[s].lastWatchdogAt]
             /\ run'[e].pc \notin {"fetch", "bump", "create", "pointer", "cards", "year"}]_vars

\* An all-probes request has stamped the dataset, its probe reporting a
\* change, and is about to answer.
C29_Witness ==
    LET r == run[1] IN
    /\ r.kind = "probeAll"
    /\ Returning(r)
    /\ \E i \in 1..Len(r.probes) :
          r.probes[i].changed /\ r.probes[i].slug = "co2-emissions"
    /\ datasets["co2-emissions"].lastWatchdogAt = now
    /\ datasets["co2-emissions"].latestSourceYear = r.loaded[1].latestSourceYear

\* ------------------------------------------------ properties of quiescence

\* C30 as stated: a probe that reported a change, run again on the same
\* response once its detected year is the dataset's latestSourceYear,
\* reports no change.
C30_Quiescence ==
    (probe.phase = "returned" /\ probe.result.changed) =>
        ~RunProbe(probe.slug, probe.result.detectedYear, probe.resp, now).changed

====
